---------------------------- MODULE Spec2Model ----------------------------
(***************************************************************************)
(* The relational store declared by the Prisma schema (src/unnamed/part_000)*)
(* as a state machine: one variable per table, one action per call, with    *)
(* the constraints and the onDelete actions the schema declares; and the    *)
(* registration and brand-profile forms that write the brands table.        *)
(***************************************************************************)
EXTENDS Integers, FiniteSets, Sequences, TLC

\* ------------------------------------------------------------------ bounds
\* The most rows the store holds at once, and the most record-scan requests
\* in flight at once.
MaxRows == 6
MaxScanners == 3

\* The ids cuid() draws from, per table (String @id @default(cuid())).
UserIds == {"u1", "u2"}
ProfileIds == {"cp1", "cp2"}
BrandIds == {"b1", "b2"}
FileIds == {"f1"}
ReviewIds == {"r1"}
PageIds == {"p1", "p2"}
BlockIds == {"k1"}
QRCodeIds == {"q1", "q2"}
ScanLogIds == {"s1", "s2", "s3", "s4"}
ScannerIds == 1..MaxScanners

\* Input domains of the create calls.
Emails == {"a@b.com", "c@d.com"}
Slugs == {"acme-launch", "acme-sale"}
IpAddresses == {"10.0.0.1"}

\* What now() and new Date().toISOString() can give.
Times == {"2025-01-01T00:00:00.000Z"}

\* What a scan brings: the time the store records it at, and the request's
\* address, user agent and derived location.
Scans == [at : Times, ipAddress : IpAddresses, userAgent : {"Mozilla/5.0"},
          location : {"IN"}]

\* A nullable column holding no value.
NULL == "null"

VARIABLES
    users,            \* table users:             [id, email]
    customerProfiles, \* table customer_profiles: [id, userId]
    adminProfiles,    \* table admin_profiles:    [id, userId]
    brands,           \* table brands:            [id, userId]
    reviews,          \* table reviews:           [id, userId, brandId]
    files,            \* table files:             [id, userId, brandId]
    landingPages,     \* table landing_pages:     [id, brandId, slug, status]
    blocks,           \* table blocks:            [id, landingPageId]
    qrCodes,          \* table qr_codes:          [id, landingPageId, brandId, scanCount]
    scanLogs,         \* table scan_logs:         [id, scannedAt, qrCodeId, userId,
                      \*                            ipAddress, userAgent, location]
    scanners,         \* record-scan requests in flight: [pc, qrCodeId, userId, seen]
    hosted,           \* the hosted brands table's rules for user_id:
                      \*   [ownerRequired, ownerUnique]
    sent,             \* the last request a form made of the brands table:
                      \*   [op, payload]
    editor,           \* the block reorder in progress and what a reader saw:
                      \*   [pc, page, old, target, written, read]
    ui,               \* the browser and RegisterForm's state: the path shown,
                      \* the toast and the alert the last handler raised, and
                      \* isLoading: [location, toast, alert, isLoading]
    view,             \* BrandProfileSection's state: [pc, user, loading, error,
                      \*   brandId, profile, thrown, uploads, overlapped]
    products,         \* table products: [id, ingredients]
    productPage,      \* BrandProductDetail's state:
                      \*   [id, loading, product, form, request]
    result            \* what the last call reported: [status, deleted, removed, nulled]

store == <<users, customerProfiles, adminProfiles, brands, reviews, files,
           landingPages, blocks, qrCodes, scanLogs>>
vars == <<users, customerProfiles, adminProfiles, brands, reviews, files,
          landingPages, blocks, qrCodes, scanLogs, scanners, hosted, sent,
          editor, ui, view, products, productPage, result>>

\* What the pages hold besides the store.
client == <<ui, view, products, productPage>>

Ids(table) == {r.id : r \in table}

\* @default(cuid()): an id no live row of the table has.
FreshId(table, pool) == CHOOSE i \in pool \ Ids(table) : TRUE

HasFreshId(table, pool) == pool \ Ids(table) # {}

RowCount == Cardinality(users) + Cardinality(customerProfiles)
            + Cardinality(adminProfiles) + Cardinality(brands)
            + Cardinality(reviews) + Cardinality(files)
            + Cardinality(landingPages) + Cardinality(blocks)
            + Cardinality(qrCodes) + Cardinality(scanLogs)

\* The model's room for one more row.
HasRoom(table, pool) == HasFreshId(table, pool) /\ RowCount < MaxRows

\* What a call reports: its outcome and, for a delete, the table of the row
\* it deleted, the tables the store removed rows from in carrying it out, and
\* the number of references it cleared.
Reply(status, deleted, removed, nulled) ==
    [status |-> status, deleted |-> deleted, removed |-> removed,
     nulled |-> nulled]

IdleScanner == [pc |-> "idle", qrCodeId |-> NULL, userId |-> NULL, seen |-> 0]

\* The brands table as the schema declares it: userId is required
\* (userId String) and indexed, not unique (@@index([userId])).
AsDeclared == [ownerRequired |-> TRUE, ownerUnique |-> FALSE]

\* No reorder in progress.
NoReorder == [pc |-> "idle", page |-> NULL, old |-> <<>>, target |-> <<>>,
              written |-> {}, read |-> <<>>]

\* The browser before any form is submitted: RegisterForm's isLoading starts
\* false, and nothing has been shown.
Toast(kind, text) == [kind |-> kind, text |-> text]

NoUi == [location |-> <<>>, toast |-> Toast("none", ""), alert |-> NULL,
         isLoading |-> FALSE]

EMPTY == ""

\* BrandProfileSection's profile before anything is loaded into it.
InitialProfile ==
    [brandName |-> EMPTY, logo |-> EMPTY, tagline |-> EMPTY,
     description |-> EMPTY, email |-> EMPTY, featuredProducts |-> <<>>]

\* The handleImageUpload calls that can be in flight.
UploadIds == {"h1", "h2"}

\* BrandProfileSection as it mounts: loading, and no error, brand id, profile
\* or upload yet. pc is where initialize stands, user is the user it got,
\* thrown tells whether its query threw, overlapped whether two uploads were
\* in flight at once. No handleImageUpload call is made yet.
NoView == [pc |-> "mounted", user |-> NULL, loading |-> TRUE, error |-> NULL,
           brandId |-> NULL, profile |-> InitialProfile, thrown |-> FALSE,
           uploads |-> [h \in UploadIds |->
                          [pc |-> "idle", productIndex |-> 0,
                           captured |-> <<>>, outcome |-> NULL]],
           overlapped |-> FALSE]

\* A JavaScript value: null, a string, an array of values, or an object,
\* whose items are its members in order, each a key with one value.
Val(kind, s, items) == [kind |-> kind, s |-> s, items |-> items]
JNull == Val("null", "", <<>>)
JStr(s) == Val("string", s, <<>>)
JArr(items) == Val("array", "", items)
JObj(members) == Val("object", "", members)

\* What the ingredients column of a products row holds: nothing, a text (as
\* the sequence of its JSON tokens), or a JSON value that is not a string.
Stored(kind, text, value) == [kind |-> kind, text |-> text, value |-> value]
Absent == Stored("absent", <<>>, JNull)
Text(tokens) == Stored("text", tokens, JNull)

\* BrandProductDetail before its route has a product: product and form are
\* null and loading is true. request is the last request the page made of
\* the products table.
NoProduct == [found |-> FALSE, id |-> NULL, ingredients |-> Absent]
NoPage == [id |-> NULL, loading |-> TRUE, product |-> NoProduct,
           form |-> [ingredients |-> JNull], request |-> [op |-> "none", id |-> NULL]]

\* No request of the brands table.
NoRequest == [op |-> "none", payload |-> [c \in {} |-> NULL]]

Init ==
    /\ users = {}
    /\ customerProfiles = {}
    /\ adminProfiles = {}
    /\ brands = {}
    /\ reviews = {}
    /\ files = {}
    /\ landingPages = {}
    /\ blocks = {}
    /\ qrCodes = {}
    /\ scanLogs = {}
    /\ scanners = [s \in ScannerIds |-> IdleScanner]
    /\ hosted = AsDeclared
    /\ sent = NoRequest
    /\ editor = NoReorder
    /\ ui = NoUi
    /\ view = NoView
    /\ products = {}
    /\ productPage = NoPage
    /\ result = Reply("ok", NULL, {}, 0)

\* A call that fails: the store is as it was and the error's class is all
\* that is reported.
Fail(err) ==
    /\ result' = Reply(err, NULL, {}, 0)
    /\ UNCHANGED <<store, scanners, hosted, sent, editor, client>>

\* A create or a scan that succeeds.
Done ==
    result' = Reply("ok", NULL, {}, 0)

\* The tables a step removes rows from.
RemovedFrom ==
    {t \in {"users", "customer_profiles", "admin_profiles", "brands", "reviews",
            "files", "landing_pages", "blocks", "qr_codes", "scan_logs"} :
        LET before == CASE t = "users" -> Ids(users)
                        [] t = "customer_profiles" -> Ids(customerProfiles)
                        [] t = "admin_profiles" -> Ids(adminProfiles)
                        [] t = "brands" -> Ids(brands)
                        [] t = "reviews" -> Ids(reviews)
                        [] t = "files" -> Ids(files)
                        [] t = "landing_pages" -> Ids(landingPages)
                        [] t = "blocks" -> Ids(blocks)
                        [] t = "qr_codes" -> Ids(qrCodes)
                        [] OTHER -> Ids(scanLogs)
            after == CASE t = "users" -> Ids(users')
                       [] t = "customer_profiles" -> Ids(customerProfiles')
                       [] t = "admin_profiles" -> Ids(adminProfiles')
                       [] t = "brands" -> Ids(brands')
                       [] t = "reviews" -> Ids(reviews')
                       [] t = "files" -> Ids(files')
                       [] t = "landing_pages" -> Ids(landingPages')
                       [] t = "blocks" -> Ids(blocks')
                       [] t = "qr_codes" -> Ids(qrCodes')
                       [] OTHER -> Ids(scanLogs')
        IN  before \ after # {}}

\* A delete that succeeds, once the store's next state is fixed.
Deleted(table) ==
    result' = Reply("ok", table, RemovedFrom,
                    Cardinality({l \in scanLogs :
                        /\ l.userId # NULL
                        /\ [l EXCEPT !.userId = NULL] \in scanLogs'}))

\* ------------------------------------------------------------- constraints
EmailInUseNever(e) == FALSE

\* User.email @unique
EmailInUse(e) == \E u \in users : u.email = e

SlugInUseNever(s) == FALSE

\* LandingPage.slug @unique
SlugInUse(s) == \E p \in landingPages : p.slug = s

ProfileExistsNever(table, u) == FALSE

\* CustomerProfile.userId @unique, AdminProfile.userId @unique
ProfileExists(table, u) == \E p \in table : p.userId = u

\* QRCode.scanCount @default(0)
DefaultScanCount == 0

\* LandingPage.status @default(DRAFT)
DefaultStatus == "DRAFT"

\* ------------------------------------------------------ referential actions
\* Each operator gives a table after the rows with the given ids have been
\* deleted from the tables it references.

\* CustomerProfile.user onDelete: Cascade
CustomerProfilesAfter(deadUsers) ==
    {p \in customerProfiles : p.userId \notin deadUsers}

\* AdminProfile.user onDelete: Cascade
AdminProfilesAfter(deadUsers) ==
    {p \in adminProfiles : p.userId \notin deadUsers}

\* Brand.user onDelete: Cascade
BrandsAfter(deadUsers, deadBrands) ==
    {b \in brands : b.id \notin deadBrands /\ b.userId \notin deadUsers}

ReviewsAfterBrandOnly(deadUsers, deadBrands) ==
    {r \in reviews : r.brandId \notin deadBrands}

\* Review.user, Review.brand onDelete: Cascade
ReviewsAfter(deadUsers, deadBrands) ==
    {r \in reviews : r.userId \notin deadUsers /\ r.brandId \notin deadBrands}

FilesAfterUserOnly(deadUsers, deadBrands) ==
    {f \in files : f.userId \notin deadUsers}

\* File.user, File.brand onDelete: Cascade
FilesAfter(deadUsers, deadBrands) ==
    {f \in files : f.userId \notin deadUsers /\ f.brandId \notin deadBrands}

\* LandingPage.brand onDelete: Cascade
LandingPagesAfter(deadBrands, deadPages) ==
    {p \in landingPages : p.id \notin deadPages /\ p.brandId \notin deadBrands}

BlocksAfterKept(deadPages) == blocks

\* Block.landingPage onDelete: Cascade
BlocksAfter(deadPages) ==
    {b \in blocks : b.landingPageId \notin deadPages}

QRCodesAfterBrandOnly(deadBrands, deadPages, deadQRCodes) ==
    {q \in qrCodes : q.id \notin deadQRCodes /\ q.brandId \notin deadBrands}

\* QRCode.landingPage, QRCode.brand onDelete: Cascade
QRCodesAfter(deadBrands, deadPages, deadQRCodes) ==
    {q \in qrCodes : /\ q.id \notin deadQRCodes
                     /\ q.landingPageId \notin deadPages
                     /\ q.brandId \notin deadBrands}

ScanLogsAfterAnonymised(deadUsers, deadQRCodes) ==
    {IF l.userId \in deadUsers
     THEN [l EXCEPT !.userId = NULL, !.ipAddress = NULL, !.userAgent = NULL]
     ELSE l :
        l \in {k \in scanLogs : k.qrCodeId \notin deadQRCodes}}

ScanLogsAfterQRSetNull(deadUsers, deadQRCodes) ==
    {IF l.userId \in deadUsers THEN [l EXCEPT !.userId = NULL] ELSE l :
        l \in scanLogs}

ScanLogsAfterUserCascade(deadUsers, deadQRCodes) ==
    {l \in scanLogs : l.userId \notin deadUsers /\ l.qrCodeId \notin deadQRCodes}

\* ScanLog.qrCode onDelete: Cascade; ScanLog.user onDelete: SetNull
ScanLogsAfter(deadUsers, deadQRCodes) ==
    {IF l.userId \in deadUsers THEN [l EXCEPT !.userId = NULL] ELSE l :
        l \in {k \in scanLogs : k.qrCodeId \notin deadQRCodes}}

\* The store after the deletion of the given rows, every referential action
\* applied transitively.
Cascade(delUsers, delBrands, delPages, delQRCodes) ==
    LET brandsLeft == BrandsAfter(delUsers, delBrands)
        deadBrands == Ids(brands) \ Ids(brandsLeft)
        pagesLeft == LandingPagesAfter(deadBrands, delPages)
        deadPages == Ids(landingPages) \ Ids(pagesLeft)
        qrLeft == QRCodesAfter(deadBrands, deadPages, delQRCodes)
        deadQRCodes == Ids(qrCodes) \ Ids(qrLeft)
    IN  /\ users' = {u \in users : u.id \notin delUsers}
        /\ customerProfiles' = CustomerProfilesAfter(delUsers)
        /\ adminProfiles' = AdminProfilesAfter(delUsers)
        /\ brands' = brandsLeft
        /\ reviews' = ReviewsAfter(delUsers, deadBrands)
        /\ files' = FilesAfter(delUsers, deadBrands)
        /\ landingPages' = pagesLeft
        /\ blocks' = BlocksAfter(deadPages)
        /\ qrCodes' = qrLeft
        /\ scanLogs' = ScanLogsAfter(delUsers, deadQRCodes)

\* A read of a row by its id (String @id).
Read(table, id) == IF id \in Ids(table) THEN "ok" ELSE "NotFoundError"

\* A foreign key: the row names a live row of the table it references. A
\* call that names a row that does not exist is rejected and changes nothing.
Exists(table, id) == id \in Ids(table)

\* ------------------------------------------------------------------- users
CreateUser(e) ==
    IF EmailInUse(e)
    THEN Fail("DuplicateEmail")
    ELSE /\ HasRoom(users, UserIds)
         /\ users' = users \cup {[id |-> FreshId(users, UserIds), email |-> e]}
         /\ UNCHANGED <<customerProfiles, adminProfiles, brands, reviews, files,
                        landingPages, blocks, qrCodes, scanLogs, scanners, hosted, sent, editor, client>>
         /\ Done

DeleteUser(u) ==
    /\ Exists(users, u)
    /\ Cascade({u}, {}, {}, {})
    /\ UNCHANGED <<scanners, hosted, sent, editor, client>>
    /\ Deleted("users")

\* ---------------------------------------------------------------- profiles
CreateCustomerProfile(u) ==
    IF ProfileExists(customerProfiles, u)
    THEN Fail("ProfileAlreadyExists")
    ELSE /\ Exists(users, u)
         /\ HasRoom(customerProfiles, ProfileIds)
         /\ customerProfiles' = customerProfiles \cup
                {[id |-> FreshId(customerProfiles, ProfileIds), userId |-> u]}
         /\ UNCHANGED <<users, adminProfiles, brands, reviews, files,
                        landingPages, blocks, qrCodes, scanLogs, scanners, hosted, sent, editor, client>>
         /\ Done

CreateAdminProfile(u) ==
    IF ProfileExists(adminProfiles, u)
    THEN Fail("ProfileAlreadyExists")
    ELSE /\ Exists(users, u)
         /\ HasRoom(adminProfiles, ProfileIds)
         /\ adminProfiles' = adminProfiles \cup
                {[id |-> FreshId(adminProfiles, ProfileIds), userId |-> u]}
         /\ UNCHANGED <<users, customerProfiles, brands, reviews, files,
                        landingPages, blocks, qrCodes, scanLogs, scanners, hosted, sent, editor, client>>
         /\ Done

\* ------------------------------------------------------------------ brands
CreateBrand(u) ==
    /\ Exists(users, u)
    /\ HasRoom(brands, BrandIds)
    /\ brands' = brands \cup {[id |-> FreshId(brands, BrandIds), userId |-> u]}
    /\ UNCHANGED <<users, customerProfiles, adminProfiles, reviews, files,
                   landingPages, blocks, qrCodes, scanLogs, scanners, hosted, sent, editor, client>>
    /\ Done

DeleteBrand(b) ==
    /\ Exists(brands, b)
    /\ Cascade({}, {b}, {}, {})
    /\ UNCHANGED <<scanners, hosted, sent, editor, client>>
    /\ Deleted("brands")

\* --------------------------------------------------------- reviews, files
CreateReview(u, b) ==
    /\ Exists(users, u)
    /\ Exists(brands, b)
    /\ HasRoom(reviews, ReviewIds)
    /\ reviews' = reviews \cup
           {[id |-> FreshId(reviews, ReviewIds), userId |-> u, brandId |-> b]}
    /\ UNCHANGED <<users, customerProfiles, adminProfiles, brands, files,
                   landingPages, blocks, qrCodes, scanLogs, scanners, hosted, sent, editor, client>>
    /\ Done

DeleteReview(r) ==
    /\ Exists(reviews, r)
    /\ reviews' = {x \in reviews : x.id # r}
    /\ UNCHANGED <<users, customerProfiles, adminProfiles, brands, files,
                   landingPages, blocks, qrCodes, scanLogs, scanners, hosted, sent, editor, client>>
    /\ Deleted("reviews")

CreateFile(u, b) ==
    /\ Exists(users, u)
    /\ Exists(brands, b)
    /\ HasRoom(files, FileIds)
    /\ files' = files \cup
           {[id |-> FreshId(files, FileIds), userId |-> u, brandId |-> b]}
    /\ UNCHANGED <<users, customerProfiles, adminProfiles, brands, reviews,
                   landingPages, blocks, qrCodes, scanLogs, scanners, hosted, sent, editor, client>>
    /\ Done

DeleteFile(f) ==
    /\ Exists(files, f)
    /\ files' = {x \in files : x.id # f}
    /\ UNCHANGED <<users, customerProfiles, adminProfiles, brands, reviews,
                   landingPages, blocks, qrCodes, scanLogs, scanners, hosted, sent, editor, client>>
    /\ Deleted("files")

\* ----------------------------------------------------------- landing pages
CreateLandingPage(b, s) ==
    IF SlugInUse(s)
    THEN Fail("ConflictError")
    ELSE /\ Exists(brands, b)
         /\ HasRoom(landingPages, PageIds)
         /\ landingPages' = landingPages \cup
                {[id |-> FreshId(landingPages, PageIds), brandId |-> b,
                  slug |-> s, status |-> DefaultStatus]}
         /\ UNCHANGED <<users, customerProfiles, adminProfiles, brands, reviews,
                        files, blocks, qrCodes, scanLogs, scanners, hosted, sent, editor, client>>
         /\ Done

DeleteLandingPage(p) ==
    /\ Exists(landingPages, p)
    /\ Cascade({}, {}, {p}, {})
    /\ UNCHANGED <<scanners, hosted, sent, editor, client>>
    /\ Deleted("landing_pages")

CreateBlock(p) ==
    /\ Exists(landingPages, p)
    /\ HasRoom(blocks, BlockIds)
    /\ blocks' = blocks \cup
           {[id |-> FreshId(blocks, BlockIds), landingPageId |-> p]}
    /\ UNCHANGED <<users, customerProfiles, adminProfiles, brands, reviews,
                   files, landingPages, qrCodes, scanLogs, scanners, hosted, sent, editor, client>>
    /\ Done

DeleteBlock(b) ==
    /\ Exists(blocks, b)
    /\ blocks' = {x \in blocks : x.id # b}
    /\ UNCHANGED <<users, customerProfiles, adminProfiles, brands, reviews,
                   files, landingPages, qrCodes, scanLogs, scanners, hosted, sent, editor, client>>
    /\ Deleted("blocks")

\* ---------------------------------------------------------------- QR codes
SomeBrand(p) == CHOOSE b \in Ids(brands) : TRUE

\* The brand a QR code of landing page p is bound to: the page's own.
OwningBrand(p) == (CHOOSE r \in landingPages : r.id = p).brandId

CreateQRCode(p) ==
    /\ Exists(landingPages, p)
    /\ Exists(brands, OwningBrand(p))
    /\ HasRoom(qrCodes, QRCodeIds)
    /\ qrCodes' = qrCodes \cup
           {[id |-> FreshId(qrCodes, QRCodeIds), landingPageId |-> p,
             brandId |-> OwningBrand(p), scanCount |-> DefaultScanCount]}
    /\ UNCHANGED <<users, customerProfiles, adminProfiles, brands, reviews,
                   files, landingPages, blocks, scanLogs, scanners, hosted, sent, editor, client>>
    /\ Done

DeleteQRCode(q) ==
    /\ Exists(qrCodes, q)
    /\ Cascade({}, {}, {}, {q})
    /\ UNCHANGED <<scanners, hosted, sent, editor, client>>
    /\ Deleted("qr_codes")

\* ------------------------------------------------------------ scan tracking
ScanCountOf(q) == (CHOOSE r \in qrCodes : r.id = q).scanCount

LostUpdateCount(stored, seen) == seen + 1

\* The counter after one more scan: an increment of the stored value by the
\* store, whatever value the request saw when it looked the QR code up.
IncrementedCount(stored, seen) == stored + 1

\* The scan transaction: the scan log row and the counter, together.
CommitScan(id, q, u, scan, seen) ==
    /\ Exists(qrCodes, q)
    /\ u = NULL \/ Exists(users, u)
    /\ scanLogs' = scanLogs \cup
           {[id |-> id, scannedAt |-> scan.at, qrCodeId |-> q, userId |-> u,
             ipAddress |-> scan.ipAddress, userAgent |-> scan.userAgent,
             location |-> scan.location]}
    /\ qrCodes' = {IF r.id = q
                   THEN [r EXCEPT !.scanCount = IncrementedCount(r.scanCount, seen)]
                   ELSE r : r \in qrCodes}
    /\ UNCHANGED <<users, customerProfiles, adminProfiles, brands, reviews,
                   files, landingPages, blocks>>

\* Record a scan with no other call in between.
RecordScan(q, u, scan) ==
    /\ Exists(qrCodes, q)
    /\ HasRoom(scanLogs, ScanLogIds)
    /\ CommitScan(FreshId(scanLogs, ScanLogIds), q, u, scan, ScanCountOf(q))
    /\ UNCHANGED <<scanners, hosted, sent, editor, client>>
    /\ Done

\* A record-scan request in two steps, so that requests overlap: the request
\* looks the QR code up, and later runs the scan transaction.
ScanBegin(s, q, u) ==
    /\ scanners[s].pc = "idle"
    /\ Exists(qrCodes, q)
    /\ scanners' = [scanners EXCEPT ![s] =
           [pc |-> "begun", qrCodeId |-> q, userId |-> u,
            seen |-> ScanCountOf(q)]]
    /\ UNCHANGED <<store, hosted, sent, editor, client>>
    /\ Done

ScanCommit(s, scan) ==
    /\ scanners[s].pc = "begun"
    /\ HasFreshId(scanLogs, ScanLogIds)
    /\ CommitScan(FreshId(scanLogs, ScanLogIds), scanners[s].qrCodeId,
                  scanners[s].userId, scan, scanners[s].seen)
    /\ scanners' = [scanners EXCEPT ![s].pc = "done"]
    /\ UNCHANGED <<hosted, sent, editor, client>>
    /\ Done

Next ==
    \/ \E e \in Emails : CreateUser(e)
    \/ \E u \in UserIds : DeleteUser(u)
    \/ \E u \in UserIds : CreateCustomerProfile(u)
    \/ \E u \in UserIds : CreateAdminProfile(u)
    \/ \E u \in UserIds : CreateBrand(u)
    \/ \E b \in BrandIds : DeleteBrand(b)
    \/ \E u \in UserIds, b \in BrandIds : CreateReview(u, b)
    \/ \E r \in ReviewIds : DeleteReview(r)
    \/ \E u \in UserIds, b \in BrandIds : CreateFile(u, b)
    \/ \E f \in FileIds : DeleteFile(f)
    \/ \E b \in BrandIds, s \in Slugs : CreateLandingPage(b, s)
    \/ \E p \in PageIds : DeleteLandingPage(p)
    \/ \E p \in PageIds : CreateBlock(p)
    \/ \E b \in BlockIds : DeleteBlock(b)
    \/ \E p \in PageIds : CreateQRCode(p)
    \/ \E q \in QRCodeIds : DeleteQRCode(q)
    \/ \E q \in QRCodeIds, u \in UserIds \cup {NULL}, scan \in Scans :
           RecordScan(q, u, scan)

Spec == Init /\ [][Next]_vars

\* ------------------------------------------------- overlapping scan requests
\* A store holding one user, one brand, one landing page and its two QR codes,
\* not yet scanned, and n record-scan requests about to arrive.
InitScan ==
    /\ users = {[id |-> "u1", email |-> "a@b.com"]}
    /\ customerProfiles = {}
    /\ adminProfiles = {}
    /\ brands = {[id |-> "b1", userId |-> "u1"]}
    /\ reviews = {}
    /\ files = {}
    /\ landingPages = {[id |-> "p1", brandId |-> "b1", slug |-> "acme-launch",
                        status |-> DefaultStatus]}
    /\ blocks = {}
    /\ qrCodes = {[id |-> q, landingPageId |-> "p1", brandId |-> "b1",
                   scanCount |-> DefaultScanCount] : q \in QRCodeIds}
    /\ scanLogs = {}
    /\ \E n \in 1..MaxScanners :
           scanners = [s \in ScannerIds |->
                          IF s <= n THEN IdleScanner
                          ELSE [IdleScanner EXCEPT !.pc = "off"]]
    /\ hosted = AsDeclared
    /\ sent = NoRequest
    /\ editor = NoReorder
    /\ ui = NoUi
    /\ view = NoView
    /\ products = {}
    /\ productPage = NoPage
    /\ result = Reply("ok", NULL, {}, 0)

NextScan ==
    \/ \E s \in ScannerIds, q \in QRCodeIds, u \in UserIds \cup {NULL} :
           ScanBegin(s, q, u)
    \/ \E s \in ScannerIds, scan \in Scans : ScanCommit(s, scan)

SpecScan == InitScan /\ [][NextScan]_vars

\* ------------------------------------------------------ the brand forms
\* The registration form (RegisterForm.tsx) and the brand-profile form
\* (BrandProfileSection) write the brands table through the hosted client.
\* A brand row here carries the columns both forms write:
\*   [id, userId, name, logo, tagline, description, email, updatedAt]

\* What the forms' text fields can hold besides the empty string.
BrandNames == {"Acme"}
Logos == {"logo.png"}
Taglines == {"Fresh"}
Descriptions == {"About Acme"}

\* RegisterForm's userType.
UserTypes == {"Brand", "Admin", "Customer"}

\* The rules the hosted brands table can have for user_id: required and not
\* unique as the schema declares, or nullable as the registration form's
\* insert takes it to be, or unique as the profile form's upsert takes it
\* to be.
HostedTables == [ownerRequired : BOOLEAN, ownerUnique : BOOLEAN]

\* Brand.name, Brand.logo, Brand.description, Brand.email: String, no default.
RequiredColumns == {"name", "logo", "description", "email"}

\* The value a payload gives a column, or the given one when it has none.
Put(payload, column, old) ==
    IF column \in DOMAIN payload THEN payload[column] ELSE old

MergedOverwriting(row, payload) ==
    [id |-> row.id,
     userId |-> Put(payload, "user_id", NULL),
     name |-> Put(payload, "name", NULL),
     logo |-> Put(payload, "logo", NULL),
     tagline |-> Put(payload, "tagline", NULL),
     description |-> Put(payload, "description", NULL),
     email |-> Put(payload, "email", NULL),
     updatedAt |-> Put(payload, "updated_at", NULL)]

\* A row after an update that sets the columns of the payload: the columns
\* the payload does not name keep their value, and so does the id.
Merged(row, payload) ==
    [id |-> row.id,
     userId |-> Put(payload, "user_id", row.userId),
     name |-> Put(payload, "name", row.name),
     logo |-> Put(payload, "logo", row.logo),
     tagline |-> Put(payload, "tagline", row.tagline),
     description |-> Put(payload, "description", row.description),
     email |-> Put(payload, "email", row.email),
     updatedAt |-> Put(payload, "updated_at", row.updatedAt)]

\* The row an insert of the payload makes: a column the payload does not
\* name holds null.
NewRow(id, payload) ==
    Merged([id |-> id, userId |-> NULL, name |-> NULL, logo |-> NULL,
            tagline |-> NULL, description |-> NULL, email |-> NULL,
            updatedAt |-> NULL], payload)

\* The not-null constraints on the row a payload proposes.
NotNullViolation(payload) ==
    \/ \E c \in RequiredColumns : Put(payload, c, NULL) = NULL
    \/ hosted.ownerRequired /\ Put(payload, "user_id", NULL) = NULL

\* Brand.user: a user_id that is not null names a user.
OwnerMissing(userTable, payload) ==
    /\ Put(payload, "user_id", NULL) # NULL
    /\ ~Exists(userTable, Put(payload, "user_id", NULL))

\* The brand rows that conflict with the payload on user_id; null conflicts
\* with nothing.
ConflictingRows(payload) ==
    {b \in brands : /\ Put(payload, "user_id", NULL) # NULL
                    /\ b.userId = Put(payload, "user_id", NULL)}

\* supabase.from('brands').insert(payload): the error, or "ok".
InsertOutcome(userTable, payload) ==
    IF NotNullViolation(payload) \/ OwnerMissing(userTable, payload)
    THEN "StoreError"
    ELSE IF hosted.ownerUnique /\ ConflictingRows(payload) # {}
    THEN "ConflictError"
    ELSE "ok"

BrandsAfterInsert(userTable, payload) ==
    IF InsertOutcome(userTable, payload) = "ok"
    THEN brands \cup {NewRow(FreshId(brands, BrandIds), payload)}
    ELSE brands

\* supabase.from('brands').upsert(payload, {onConflict: 'user_id'}): the
\* error, or "ok". The conflict target must be a unique column, and the
\* proposed row must meet the not-null constraints whether or not a row
\* conflicts with it.
UpsertOutcome(payload) ==
    IF ~hosted.ownerUnique THEN "StoreError"
    ELSE IF NotNullViolation(payload) \/ OwnerMissing(users, payload)
    THEN "StoreError"
    ELSE "ok"

BrandsAfterUpsertReplacing(payload) ==
    IF UpsertOutcome(payload) # "ok" THEN brands
    ELSE (brands \ ConflictingRows(payload))
         \cup {NewRow(IF HasFreshId(brands, BrandIds)
                      THEN FreshId(brands, BrandIds)
                      ELSE CHOOSE i \in BrandIds : TRUE, payload)}

BrandsAfterUpsert(payload) ==
    IF UpsertOutcome(payload) # "ok" THEN brands
    ELSE IF ConflictingRows(payload) # {}
    THEN {IF b \in ConflictingRows(payload) THEN Merged(b, payload) ELSE b :
             b \in brands}
    ELSE brands \cup {NewRow(FreshId(brands, BrandIds), payload)}

\* RegisterForm.handleSubmit's insert payload. userId is the new user's id
\* when the sign-up handed one back and null when it did not.
RegisterPayload(userId, name, email, now) ==
    [user_id |-> userId, name |-> name, email |-> email,
     logo |-> EMPTY, description |-> EMPTY, updated_at |-> now]

\* A handler that returns before it makes a request of the brands table,
\* leaving the page as shown.
Returned(err, shown) ==
    /\ result' = Reply(err, NULL, {}, 0)
    /\ sent' = NoRequest
    /\ ui' = shown
    /\ UNCHANGED <<store, scanners, hosted, editor, view, products,
                   productPage>>

\* setIsLoading(true) as the handler starts; nothing is shown yet.
Loading(u) == [u EXCEPT !.isLoading = TRUE, !.toast = Toast("none", ""), !.alert = NULL]

FinallySkipped(u) == u

\* finally { setIsLoading(false) }
Finally(u) == [u EXCEPT !.isLoading = FALSE]

redirectPathBrandOnly(userType) ==
    IF userType = "Brand" THEN <<"dashboard", "brand">> ELSE <<"dashboard", "user">>

\* The path RegisterForm navigates to after a sign-up.
redirectPath(userType) ==
    IF userType = "Brand" THEN <<"dashboard", "brand">>
    ELSE IF userType = "Admin" THEN <<"dashboard", "admin">>
    ELSE <<"dashboard", "user">>

\* RegisterForm.handleSubmit: sign the user up and, unless that failed,
\* insert a brand row, raise the success toast and navigate. threw tells
\* whether supabase.auth.signUp threw instead of returning; gotId tells
\* whether the sign-up handed back the new user's id.
RegisterForm_handleSubmit(name, email, userType, gotId, threw, now) ==
    IF threw
    THEN Returned("Exception",
                  Finally([Loading(ui) EXCEPT !.toast =
                      Toast("error", "Registration failed. Please try again.")]))
    ELSE IF EmailInUse(email)
    THEN Returned("DuplicateEmail",
                  Finally([Loading(ui) EXCEPT !.toast =
                      Toast("error", "Registration failed: User already registered")]))
    ELSE LET id == FreshId(users, UserIds)
             userId == IF gotId THEN id ELSE NULL
             payload == RegisterPayload(userId, name, email, now)
             signedUp == users \cup {[id |-> id, email |-> email]}
             brandInsertError == InsertOutcome(signedUp, payload) # "ok"
         IN  /\ HasRoom(users, UserIds)
             /\ HasFreshId(brands, BrandIds)
             /\ users' = signedUp
             /\ brands' = BrandsAfterInsert(signedUp, payload)
             /\ UNCHANGED <<customerProfiles, adminProfiles, reviews, files,
                            landingPages, blocks, qrCodes, scanLogs, scanners,
                            hosted, editor, view, products, productPage>>
             /\ sent' = [op |-> "insert", payload |-> payload]
             /\ result' = Reply(InsertOutcome(signedUp, payload), NULL, {}, 0)
             /\ ui' = Finally([Loading(ui) EXCEPT
                        !.alert = IF brandInsertError
                                  THEN "failed to save brand info"
                                  ELSE "brand info saved",
                        !.toast = Toast("success", userType),
                        !.location = redirectPath(userType)])

\* The state of the brand-profile form when it is submitted.
ProfileForms ==
    [brandName : BrandNames \cup {EMPTY}, logo : Logos \cup {EMPTY},
     tagline : Taglines \cup {EMPTY}, description : Descriptions \cup {EMPTY},
     email : Emails \cup {EMPTY}]

\* BrandProfileSection.handleSubmit's updatePayload, before and after the
\* keys holding undefined, null or the empty string are deleted from it.
updatePayload(user, profile, now) ==
    [user_id |-> user, name |-> profile.brandName, logo |-> profile.logo,
     tagline |-> profile.tagline, description |-> profile.description,
     email |-> profile.email, updated_at |-> now]

WithoutNull(payload) ==
    [k \in {c \in DOMAIN payload : payload[c] # NULL} |-> payload[k]]

WithoutEmpty(payload) ==
    [k \in {c \in DOMAIN payload : payload[c] \notin {NULL, EMPTY}} |->
        payload[k]]

MissingName(profile) == profile.brandName = EMPTY

\* The required fields the profile form checks before it saves.
Missing(profile) == profile.brandName = EMPTY \/ profile.email = EMPTY

\* brandName.toLowerCase() with every run of other characters made one
\* hyphen and the hyphens at both ends dropped.
brandSlug(brandName) ==
    CASE brandName = "Acme" -> "acme"
      [] OTHER -> EMPTY

\* What a BrandProfileSection handler shows: its toast, and no alert.
Shown(toast) == [ui EXCEPT !.toast = toast, !.alert = NULL]

\* BrandProfileSection.handleSubmit, submitted by the signed-in user (NULL
\* when nobody is signed in).
BrandProfileSection_handleSubmit(user, profile, now) ==
    /\ user = NULL \/ Exists(users, user)
    /\ IF user = NULL
       THEN Returned("NotAuthenticated",
                     Shown(Toast("error", "Please login to update your profile")))
       ELSE IF Missing(profile)
       THEN Returned("ValidationError",
                     Shown(Toast("error", IF profile.brandName = EMPTY
                                          THEN "Brand name is required"
                                          ELSE "Email is required")))
       ELSE LET payload == WithoutEmpty(updatePayload(user, profile, now))
                error == UpsertOutcome(payload)
            IN  /\ ConflictingRows(payload) # {} \/ HasRoom(brands, BrandIds)
                /\ brands' = BrandsAfterUpsert(payload)
                /\ UNCHANGED <<users, customerProfiles, adminProfiles, reviews,
                               files, landingPages, blocks, qrCodes, scanLogs,
                               scanners, hosted, editor, view, products,
                               productPage>>
                /\ sent' = [op |-> "upsert", payload |-> payload]
                /\ result' = Reply(error, NULL, {}, 0)
                /\ ui' = IF error = "ok"
                         THEN [Shown(Toast("success", "Profile updated successfully"))
                                   EXCEPT !.location =
                                       <<"brand", brandSlug(profile.brandName)>>]
                         ELSE Shown(Toast("error",
                                  IF error = "ConflictError"
                                  THEN "A profile with this email already exists"
                                  ELSE "Failed to update profile"))

InitForms ==
    /\ users = {}
    /\ customerProfiles = {}
    /\ adminProfiles = {}
    /\ brands = {}
    /\ reviews = {}
    /\ files = {}
    /\ landingPages = {}
    /\ blocks = {}
    /\ qrCodes = {}
    /\ scanLogs = {}
    /\ scanners = [s \in ScannerIds |-> IdleScanner]
    /\ hosted \in HostedTables
    /\ sent = NoRequest
    /\ editor = NoReorder
    /\ ui = NoUi
    /\ view = NoView
    /\ products = {}
    /\ productPage = NoPage
    /\ result = Reply("ok", NULL, {}, 0)

NextForms ==
    \/ \E name \in BrandNames, email \in Emails, gotId \in BOOLEAN,
          now \in Times :
           RegisterForm_handleSubmit(name, email, "Brand", gotId, FALSE, now)
    \/ \E user \in UserIds \cup {NULL}, profile \in ProfileForms,
          now \in Times :
           BrandProfileSection_handleSubmit(user, profile, now)
    \/ \E u \in UserIds : DeleteUser(u)
    \/ \E b \in BrandIds : DeleteBrand(b)

SpecForms == InitForms /\ [][NextForms]_vars

\* The registration form alone, for every userType, with sign-ups that throw.
NextRegister ==
    \/ \E name \in BrandNames, email \in Emails, userType \in UserTypes,
          gotId \in BOOLEAN, threw \in BOOLEAN, now \in Times :
           RegisterForm_handleSubmit(name, email, userType, gotId, threw, now)
    \/ \E u \in UserIds : DeleteUser(u)
    \/ \E b \in BrandIds : DeleteBrand(b)

SpecRegister == InitForms /\ [][NextRegister]_vars

\* ------------------------------------------------- the brand profile page
\* BrandProfileSection loads the signed-in user's brand row when it mounts
\* (initialize), and handleImageUpload adds an uploaded image's public URL to
\* one of the profile's featured products.

\* value || ''
OrEmpty(value) == IF value = NULL THEN EMPTY ELSE value

\* The brand rows of this model carry no featured_products column, so the
\* profile is given none: data.featured_products || [].
mapBackendBrandToProfile(data) ==
    [brandName |-> OrEmpty(data.name), logo |-> OrEmpty(data.logo),
     tagline |-> OrEmpty(data.tagline),
     description |-> OrEmpty(data.description),
     email |-> OrEmpty(data.email), featuredProducts |-> <<>>]

firstRow(rows) ==
    IF rows = {}
    THEN [data |-> [id |-> NULL], error |-> "PGRST116"]
    ELSE [data |-> CHOOSE r \in rows : TRUE, error |-> NULL]

\* .single(): the row when the query matches exactly one, and an error when
\* it matches none or several.
single(rows) ==
    IF Cardinality(rows) = 1
    THEN [data |-> CHOOSE r \in rows : TRUE, error |-> NULL]
    ELSE [data |-> [id |-> NULL], error |-> "PGRST116"]

\* initialize up to its query: the storage buckets are set up, and
\* supabase.auth.getUser() gives the signed-in user or none.
initialize_getUser(user) ==
    /\ view.pc = "mounted"
    /\ user = NULL \/ Exists(users, user)
    /\ IF user = NULL
       THEN /\ view' = [view EXCEPT !.pc = "done", !.loading = FALSE,
                            !.error = "Please login to view your profile"]
            /\ ui' = Shown(Toast("error", "Please login to view your profile"))
       ELSE /\ view' = [view EXCEPT !.pc = "query", !.user = user]
            /\ ui' = ui
    /\ UNCHANGED <<store, scanners, hosted, sent, editor, products,
                   productPage, result>>

\* initialize from the answer of its query on: the row is put in the
\* profile, or the error is caught; loading is over either way. threw tells
\* whether the query threw instead of answering.
initialize_query(threw) ==
    /\ view.pc = "query"
    /\ LET reply == single({b \in brands : b.userId = view.user})
       IN  IF threw \/ reply.error # NULL
           THEN /\ view' = [view EXCEPT !.pc = "done", !.loading = FALSE,
                                !.thrown = threw,
                                !.error = "Failed to load profile. Please try again."]
                /\ ui' = Shown(Toast("error", "Failed to load profile"))
           ELSE /\ view' = [view EXCEPT !.pc = "done", !.loading = FALSE,
                                !.profile = mapBackendBrandToProfile(reply.data),
                                !.brandId = reply.data.id]
                /\ ui' = ui
    /\ UNCHANGED <<store, scanners, hosted, sent, editor, products,
                   productPage, result>>

\* The brand rows a profile page can find when it mounts: at most one row
\* for each id, each owned by one of the two users.
StoredProfile(id, user) ==
    NewRow(id, [user_id |-> user, name |-> "Acme", logo |-> "logo.png",
                description |-> "About Acme", email |-> "a@b.com",
                updated_at |-> CHOOSE t \in Times : TRUE])

InitLoad ==
    /\ users = {[id |-> "u1", email |-> "a@b.com"],
                [id |-> "u2", email |-> "c@d.com"]}
    /\ customerProfiles = {}
    /\ adminProfiles = {}
    /\ brands \in {{StoredProfile(i, owner[i]) : i \in ids} :
                      ids \in SUBSET BrandIds, owner \in [BrandIds -> UserIds]}
    /\ reviews = {}
    /\ files = {}
    /\ landingPages = {}
    /\ blocks = {}
    /\ qrCodes = {}
    /\ scanLogs = {}
    /\ scanners = [s \in ScannerIds |-> IdleScanner]
    /\ hosted = AsDeclared
    /\ sent = NoRequest
    /\ editor = NoReorder
    /\ ui = NoUi
    /\ view = NoView
    /\ products = {}
    /\ productPage = NoPage
    /\ result = Reply("ok", NULL, {}, 0)

NextLoad ==
    \/ \E user \in UserIds \cup {NULL} : initialize_getUser(user)
    \/ \E threw \in BOOLEAN : initialize_query(threw)
    \/ \E b \in BrandIds : DeleteBrand(b)

\* initialize runs on: each await of it settles, so a step of it that can be
\* taken is taken.
SpecLoad ==
    /\ InitLoad
    /\ [][NextLoad]_vars
    /\ WF_vars(\E user \in UserIds \cup {NULL} : initialize_getUser(user))
    /\ WF_vars(\E threw \in BOOLEAN : initialize_query(threw))

\* The featured products of the profile the uploads are made to.
FeaturedAtStart ==
    <<[name |-> "Soap", images |-> <<>>], [name |-> "Oil", images |-> <<>>]>>

\* The files a user can pick: their size in bytes and their type.
UploadFiles == [size : {1024, 5 * 1024 * 1024 + 1},
                type : {"image/png", "application/pdf"}]

\* The public URL of the file a call has stored: the bucket and the path,
\* which holds the user's id and the time of the call, one for each call.
publicUrl(h, user) == <<"product-images", "products", user, h>>

\* What a handleImageUpload call shows as it ends without storing a file.
UploadEnded(h, outcome, text) ==
    /\ view' = [view EXCEPT !.uploads[h] =
                   [@ EXCEPT !.pc = "done", !.outcome = outcome]]
    /\ ui' = Shown(Toast("error", text))

\* handleImageUpload up to its upload: the user and the file are checked,
\* and the file is sent to the bucket. The call works on the profile of the
\* render it was made in.
handleImageUpload_begin(h, productIndex, file, user) ==
    /\ view.pc = "done"
    /\ view.uploads[h].pc = "idle"
    /\ productIndex \in 1..Len(view.profile.featuredProducts)
    /\ IF user = NULL
       THEN UploadEnded(h, "error", "Failed to upload image. Please try again.")
       ELSE IF file.size > 5 * 1024 * 1024
       THEN UploadEnded(h, "rejected", "File size should be less than 5MB")
       ELSE IF file.type \notin {"image/jpeg", "image/png", "image/webp"}
       THEN UploadEnded(h, "rejected",
                        "Only JPEG, PNG, and WebP images are allowed")
       ELSE /\ view' = [view EXCEPT
                   !.uploads[h] = [pc |-> "uploading",
                                   productIndex |-> productIndex,
                                   captured |-> view.profile.featuredProducts,
                                   outcome |-> NULL],
                   !.overlapped = @ \/ \E g \in UploadIds :
                                          view.uploads[g].pc = "uploading"]
            /\ ui' = ui
    /\ UNCHANGED <<store, scanners, hosted, sent, editor, products,
                   productPage, result>>

\* newProducts: the products the call was made with, the URL added to the
\* images of the product at productIndex.
newProducts(captured, productIndex, url) ==
    [captured EXCEPT ![productIndex].images = Append(@, url)]

\* handleImageUpload from the bucket's answer on: the URL of the stored file
\* is added to the product's images and the profile is given the new
\* products, or the error is shown.
handleImageUpload_done(h, uploadError) ==
    /\ view.uploads[h].pc = "uploading"
    /\ IF uploadError = "duplicate"
       THEN UploadEnded(h, "duplicate", "A file with this name already exists")
       ELSE IF uploadError # NULL
       THEN UploadEnded(h, "error", "Failed to upload image. Please try again.")
       ELSE /\ view' = [view EXCEPT
                   !.uploads[h] = [@ EXCEPT !.pc = "done", !.outcome = "ok"],
                   !.profile.featuredProducts =
                       newProducts(view.uploads[h].captured,
                                   view.uploads[h].productIndex,
                                   publicUrl(h, view.user))]
            /\ ui' = Shown(Toast("success", "Image uploaded successfully"))
    /\ UNCHANGED <<store, scanners, hosted, sent, editor, products,
                   productPage, result>>

\* The profile page of u1, loaded, with two featured products.
InitUpload ==
    /\ users = {[id |-> "u1", email |-> "a@b.com"]}
    /\ customerProfiles = {}
    /\ adminProfiles = {}
    /\ brands = {StoredProfile("b1", "u1")}
    /\ reviews = {}
    /\ files = {}
    /\ landingPages = {}
    /\ blocks = {}
    /\ qrCodes = {}
    /\ scanLogs = {}
    /\ scanners = [s \in ScannerIds |-> IdleScanner]
    /\ hosted = AsDeclared
    /\ sent = NoRequest
    /\ editor = NoReorder
    /\ ui = NoUi
    /\ view = [NoView EXCEPT !.pc = "done", !.loading = FALSE, !.user = "u1",
                   !.brandId = "b1",
                   !.profile = [mapBackendBrandToProfile(StoredProfile("b1", "u1"))
                                    EXCEPT !.featuredProducts = FeaturedAtStart]]
    /\ products = {}
    /\ productPage = NoPage
    /\ result = Reply("ok", NULL, {}, 0)

NextUpload ==
    \/ \E h \in UploadIds, productIndex \in 1..Len(FeaturedAtStart),
          file \in UploadFiles, user \in {"u1", NULL} :
           handleImageUpload_begin(h, productIndex, file, user)
    \/ \E h \in UploadIds, uploadError \in {NULL, "duplicate", "failed"} :
           handleImageUpload_done(h, uploadError)

SpecUpload == InitUpload /\ [][NextUpload]_vars

\* ------------------------------------------------- the product detail page
\* BrandProductDetail loads the product of its route (fetchProduct), lets the
\* user edit its ingredients, and saves (handleSave) or deletes
\* (handleDelete) it. A products row here is [id, ingredients]. The page's
\* lookups of the user's name and brand id change nothing modelled here.

MaxIngredients == 2

\* { name, quantity }
Ingredient(name, quantity) ==
    JObj(<<Val("member", "name", <<JStr(name)>>),
           Val("member", "quantity", <<JStr(quantity)>>)>>)

\* The lists IngredientsInput can hand to the form.
IngredientLists ==
    UNION {[1..n -> {Ingredient(name, quantity) :
                        name \in {"salt"}, quantity \in {"1g", EMPTY}}] :
              n \in 0..MaxIngredients}

\* The tokens of a JSON text: punctuation, null, and string literals.
Tok(t, s) == [t |-> t, s |-> s]

RECURSIVE stringify(_)
RECURSIVE stringifyAll(_, _)

\* The texts of the values, with the separator before each but the first.
stringifyAll(values, first) ==
    IF values = <<>> THEN <<>>
    ELSE (IF first THEN <<>> ELSE <<Tok(",", "")>>)
         \o stringify(Head(values)) \o stringifyAll(Tail(values), FALSE)

\* JSON.stringify(value)
stringify(value) ==
    CASE value.kind = "null" -> <<Tok("null", "")>>
      [] value.kind = "string" -> <<Tok("str", value.s)>>
      [] value.kind = "member" ->
             <<Tok("str", value.s), Tok(":", "")>> \o stringify(value.items[1])
      [] value.kind = "array" ->
             <<Tok("[", "")>> \o stringifyAll(value.items, TRUE) \o <<Tok("]", "")>>
      [] OTHER ->
             <<Tok("{", "")>> \o stringifyAll(value.items, TRUE) \o <<Tok("}", "")>>

\* What a parse of a prefix of a text gives: the value and the rest of the
\* text, or a SyntaxError.
Parsed(value, rest) == [ok |-> TRUE, value |-> value, rest |-> rest]
SyntaxError == [ok |-> FALSE, value |-> JNull, rest |-> <<>>]

RECURSIVE parseValue(_)
RECURSIVE parseItems(_, _)
RECURSIVE parseMembers(_, _)

\* The items of an array after its "[", up to its "]".
parseItems(tokens, items) ==
    LET item == parseValue(tokens)
    IN  IF ~item.ok \/ item.rest = <<>> THEN SyntaxError
        ELSE IF Head(item.rest).t = "]"
        THEN Parsed(JArr(Append(items, item.value)), Tail(item.rest))
        ELSE IF Head(item.rest).t = ","
        THEN parseItems(Tail(item.rest), Append(items, item.value))
        ELSE SyntaxError

\* The members of an object after its "{", up to its "}".
parseMembers(tokens, members) ==
    IF Len(tokens) < 3 \/ tokens[1].t # "str" \/ tokens[2].t # ":"
    THEN SyntaxError
    ELSE LET value == parseValue(SubSeq(tokens, 3, Len(tokens)))
             member == Val("member", tokens[1].s, <<value.value>>)
         IN  IF ~value.ok \/ value.rest = <<>> THEN SyntaxError
             ELSE IF Head(value.rest).t = "}"
             THEN Parsed(JObj(Append(members, member)), Tail(value.rest))
             ELSE IF Head(value.rest).t = ","
             THEN parseMembers(Tail(value.rest), Append(members, member))
             ELSE SyntaxError

\* One JSON value at the head of a text.
parseValue(tokens) ==
    IF tokens = <<>> THEN SyntaxError
    ELSE CASE Head(tokens).t = "null" -> Parsed(JNull, Tail(tokens))
           [] Head(tokens).t = "str" ->
                  Parsed(JStr(Head(tokens).s), Tail(tokens))
           [] Head(tokens).t = "[" ->
                  IF Len(tokens) >= 2 /\ tokens[2].t = "]"
                  THEN Parsed(JArr(<<>>), SubSeq(tokens, 3, Len(tokens)))
                  ELSE parseItems(Tail(tokens), <<>>)
           [] Head(tokens).t = "{" ->
                  IF Len(tokens) >= 2 /\ tokens[2].t = "}"
                  THEN Parsed(JObj(<<>>), SubSeq(tokens, 3, Len(tokens)))
                  ELSE parseMembers(Tail(tokens), <<>>)
           [] OTHER -> SyntaxError

\* JSON.parse(text): the value of the whole text, or a SyntaxError.
parse(text) ==
    LET value == parseValue(text)
    IN  IF value.ok /\ value.rest = <<>> THEN value ELSE SyntaxError

\* data.ingredients is truthy: it is there and is not the empty string.
Truthy(stored) ==
    /\ stored.kind # "absent"
    /\ stored.kind = "text" => stored.text # <<>>
    /\ stored.kind = "json" => stored.value.kind # "null"

ingredientsUnparsed(stored) ==
    IF ~Truthy(stored) THEN JArr(<<>>)
    ELSE IF stored.kind = "text" THEN JStr("unparsed")
    ELSE stored.value

\* fetchProduct's ingredients: the empty list unless the column holds
\* something; a text is parsed and gives the empty list when the parse
\* throws; anything else is taken as it is.
ingredients(stored) ==
    IF ~Truthy(stored) THEN JArr(<<>>)
    ELSE IF stored.kind = "text"
    THEN (IF parse(stored.text).ok THEN parse(stored.text).value ELSE JArr(<<>>))
    ELSE stored.value

\* .select('*').eq('id', id).single()
ProductOf(id) ==
    IF \E r \in products : r.id = id
    THEN [found |-> TRUE, id |-> id,
          ingredients |-> (CHOOSE r \in products : r.id = id).ingredients]
    ELSE NoProduct

fetchProduct ==
    /\ productPage.id # NULL
    /\ productPage.loading
    /\ productPage' = [productPage EXCEPT
           !.loading = FALSE,
           !.product = ProductOf(productPage.id),
           !.form = [ingredients |-> ingredients(ProductOf(productPage.id).ingredients)],
           !.request = [op |-> "select", id |-> productPage.id]]
    /\ UNCHANGED <<store, scanners, hosted, sent, editor, ui, view, products,
                   result>>

\* The page shows the form and its buttons once a product is loaded.
FormShown == ~productPage.loading /\ productPage.product.found

\* IngredientsInput hands the form the list as edited.
IngredientsInput_onChange(updated) ==
    /\ FormShown
    /\ productPage' = [productPage EXCEPT !.form.ingredients = JArr(updated),
                                          !.request = [op |-> "none", id |-> NULL]]
    /\ UNCHANGED <<store, scanners, hosted, sent, editor, ui, view, products,
                   result>>

\* handleSave: the row of the route id is given the form, its ingredients
\* as a JSON text; then the page reloads, or the error is shown.
handleSave(error) ==
    /\ FormShown
    /\ IF error
       THEN /\ UNCHANGED products
            /\ ui' = [ui EXCEPT !.alert = "Error updating product",
                                !.toast = Toast("none", "")]
            /\ productPage' = [productPage EXCEPT
                   !.request = [op |-> "update", id |-> productPage.id]]
       ELSE /\ products' =
                {IF r.id = productPage.id
                 THEN [r EXCEPT !.ingredients =
                           Text(stringify(productPage.form.ingredients))]
                 ELSE r : r \in products}
            /\ ui' = [ui EXCEPT !.alert = "Product updated", !.toast = Toast("none", "")]
            /\ productPage' = [NoPage EXCEPT
                   !.id = productPage.id,
                   !.request = [op |-> "update", id |-> productPage.id]]
    /\ UNCHANGED <<store, scanners, hosted, sent, editor, view, result>>

DeletedEveryRow(id) == {}

\* .delete().eq('id', id): the table without the row of that id.
DeletedRow(id) == {r \in products : r.id # id}

ProductsPath == <<"dashboard", "brand", "products">>

\* handleDelete: nothing unless the user confirms; then the row of the
\* route id is deleted and the browser goes to the products list, or the
\* error is shown.
handleDelete(confirmed, error) ==
    /\ FormShown
    /\ IF ~confirmed
       THEN /\ UNCHANGED <<products, ui>>
            /\ productPage' = [productPage EXCEPT !.request = [op |-> "none", id |-> NULL]]
       ELSE IF error
       THEN /\ UNCHANGED products
            /\ ui' = [ui EXCEPT !.alert = "Error deleting product",
                                !.toast = Toast("none", "")]
            /\ productPage' = [productPage EXCEPT
                   !.request = [op |-> "delete", id |-> productPage.id]]
       ELSE /\ products' = DeletedRow(productPage.id)
            /\ ui' = [ui EXCEPT !.location = ProductsPath, !.alert = NULL,
                                !.toast = Toast("none", "")]
            /\ productPage' = [NoPage EXCEPT
                   !.request = [op |-> "delete", id |-> productPage.id]]
    /\ UNCHANGED <<store, scanners, hosted, sent, editor, view, result>>

\* The user opens a product's page from the products list; the route's id
\* is a product's or one that no product has.
OpenProduct(id) ==
    /\ productPage.id = NULL
    /\ productPage' = [NoPage EXCEPT !.id = id]
    /\ ui' = [ui EXCEPT !.location = Append(ProductsPath, id), !.alert = NULL,
                        !.toast = Toast("none", "")]
    /\ UNCHANGED <<store, scanners, hosted, sent, editor, view, products,
                   result>>

\* What the ingredients column can hold before the page has saved to it:
\* nothing, the empty string, texts that are not JSON, the text null, and a
\* JSON array that is not a string.
StoredAtStart ==
    {Absent, Text(<<>>), Text(<<Tok("salt", "")>>),
     Text(<<Tok("[", ""), Tok("{", ""), Tok("str", "name"), Tok(":", "")>>),
     Text(<<Tok("null", "")>>),
     Text(stringify(JArr(<<Ingredient("salt", "1g")>>))),
     Stored("json", <<>>, JArr(<<Ingredient("salt", "1g")>>))}

InitProduct ==
    /\ users = {}
    /\ customerProfiles = {}
    /\ adminProfiles = {}
    /\ brands = {}
    /\ reviews = {}
    /\ files = {}
    /\ landingPages = {}
    /\ blocks = {}
    /\ qrCodes = {}
    /\ scanLogs = {}
    /\ scanners = [s \in ScannerIds |-> IdleScanner]
    /\ hosted = AsDeclared
    /\ sent = NoRequest
    /\ editor = NoReorder
    /\ ui = [NoUi EXCEPT !.location = ProductsPath]
    /\ view = NoView
    /\ products \in {{[id |-> "pr1", ingredients |-> stored],
                      [id |-> "pr2", ingredients |-> Absent]} :
                        stored \in StoredAtStart}
    /\ productPage = NoPage
    /\ result = Reply("ok", NULL, {}, 0)

NextProduct ==
    \/ \E id \in {"pr1", "pr9"} : OpenProduct(id)
    \/ fetchProduct
    \/ \E updated \in IngredientLists : IngredientsInput_onChange(updated)
    \/ \E error \in BOOLEAN : handleSave(error)
    \/ \E confirmed \in BOOLEAN, error \in BOOLEAN : handleDelete(confirmed, error)

SpecProduct == InitProduct /\ [][NextProduct]_vars

\* ------------------------------------------------------ the block sequence
\* The blocks of a landing page, each with its order (Block.order Int), under
\* the block operations: insert at an order, delete, reorder, and the read
\* that sorts by order. A block row here is [id, landingPageId, order].

\* The largest order a block is given.
MaxOrder == 3

EditorBlockIds == {"k1", "k2", "k3"}

BlocksOf(p) == {b \in blocks : b.landingPageId = p}

\* The sequences that hold every element of a set once.
Perms(S) ==
    {s \in [1..Cardinality(S) -> S] :
        \A i, j \in 1..Cardinality(S) : i # j => s[i] # s[j]}

\* Reading a page's blocks: the rows sorted by order, ascending.
SortedRows(p) ==
    CHOOSE s \in Perms(BlocksOf(p)) :
        \A i, j \in 1..Len(s) : i < j => s[i].order <= s[j].order

SortedIds(p) == [i \in 1..Len(SortedRows(p)) |-> SortedRows(p)[i].id]

NotShifted(p, at) == BlocksOf(p)

\* The blocks of a page once those at or after an order have moved one up.
Shifted(p, at) ==
    {IF b.order >= at THEN [b EXCEPT !.order = b.order + 1] ELSE b :
        b \in BlocksOf(p)}

\* Insert a block at an order, the blocks that follow it shifted, as one
\* operation.
InsertBlock(p, at) ==
    /\ editor.pc = "idle"
    /\ Exists(landingPages, p)
    /\ HasFreshId(blocks, EditorBlockIds)
    /\ \A b \in Shifted(p, at) : b.order <= MaxOrder
    /\ blocks' = (blocks \ BlocksOf(p)) \cup Shifted(p, at)
                 \cup {[id |-> FreshId(blocks, EditorBlockIds),
                        landingPageId |-> p, order |-> at]}
    /\ UNCHANGED <<users, customerProfiles, adminProfiles, brands, reviews,
                   files, landingPages, qrCodes, scanLogs, scanners, hosted,
                   sent, editor, client>>
    /\ Done

\* The order a reorder gives a block: its place in the new sequence.
PlaceIn(target, id) == (CHOOSE i \in 1..Len(target) : target[i] = id) - 1

\* The blocks table with the rows of some blocks rewritten for a reorder.
Rewritten(target, ids) ==
    {IF b.id \in ids THEN [b EXCEPT !.order = PlaceIn(target, b.id)] ELSE b :
        b \in blocks}

RewrittenInPlace(target, ids) == Rewritten(target, ids)

\* The blocks table that readers see while a reorder has rewritten some rows
\* and not yet committed: none of its writes.
SeenDuringReorder(target, ids) == blocks

\* A reorder of page p into the sequence target begins.
ReorderBegin(p, target) ==
    /\ editor.pc = "idle"
    /\ Len(target) >= 2
    /\ target # SortedIds(p)
    /\ editor' = [pc |-> "writing", page |-> p, old |-> SortedRows(p),
                  target |-> target, written |-> {}, read |-> <<>>]
    /\ UNCHANGED <<store, scanners, hosted, sent, client, result>>

\* The reorder rewrites the order of one more block.
ReorderWrite(id) ==
    /\ editor.pc = "writing"
    /\ id \in {editor.target[i] : i \in 1..Len(editor.target)} \ editor.written
    /\ editor' = [editor EXCEPT !.written = @ \cup {id}]
    /\ blocks' = SeenDuringReorder(editor.target, editor.written \cup {id})
    /\ UNCHANGED <<users, customerProfiles, adminProfiles, brands, reviews,
                   files, landingPages, qrCodes, scanLogs, scanners, hosted,
                   sent, client, result>>

\* The reorder commits once it has rewritten every block of the sequence.
ReorderCommit ==
    /\ editor.pc = "writing"
    /\ editor.written = {editor.target[i] : i \in 1..Len(editor.target)}
    /\ editor' = [editor EXCEPT !.pc = "committed"]
    /\ blocks' = Rewritten(editor.target, editor.written)
    /\ UNCHANGED <<users, customerProfiles, adminProfiles, brands, reviews,
                   files, landingPages, qrCodes, scanLogs, scanners, hosted,
                   sent, client, result>>

\* The editor is done with the reorder it committed.
ReorderEnd ==
    /\ editor.pc = "committed"
    /\ editor' = NoReorder
    /\ UNCHANGED <<store, scanners, hosted, sent, client, result>>

\* A reader reads the blocks of the page being reordered.
ReadBlocks ==
    /\ editor.pc \in {"writing", "committed"}
    /\ BlocksOf(editor.page) # {}
    /\ editor' = [editor EXCEPT !.read = SortedRows(editor.page)]
    /\ UNCHANGED <<store, scanners, hosted, sent, client, result>>

InitBlocks ==
    /\ users = {[id |-> "u1", email |-> "a@b.com"]}
    /\ customerProfiles = {}
    /\ adminProfiles = {}
    /\ brands = {[id |-> "b1", userId |-> "u1"]}
    /\ reviews = {}
    /\ files = {}
    /\ landingPages = {[id |-> "p1", brandId |-> "b1", slug |-> "acme-launch",
                        status |-> DefaultStatus],
                       [id |-> "p2", brandId |-> "b1", slug |-> "acme-sale",
                        status |-> DefaultStatus]}
    /\ blocks = {}
    /\ qrCodes = {}
    /\ scanLogs = {}
    /\ scanners = [s \in ScannerIds |-> IdleScanner]
    /\ hosted = AsDeclared
    /\ sent = NoRequest
    /\ editor = NoReorder
    /\ ui = NoUi
    /\ view = NoView
    /\ products = {}
    /\ productPage = NoPage
    /\ result = Reply("ok", NULL, {}, 0)

NextBlocks ==
    \/ \E p \in PageIds, at \in 0..MaxOrder : InsertBlock(p, at)
    \/ \E b \in EditorBlockIds : editor.pc = "idle" /\ DeleteBlock(b)
    \/ \E p \in PageIds :
           \E target \in Perms({b.id : b \in BlocksOf(p)}) : ReorderBegin(p, target)
    \/ \E id \in EditorBlockIds : ReorderWrite(id)
    \/ ReorderCommit
    \/ ReorderEnd
    \/ ReadBlocks

SpecBlocks == InitBlocks /\ [][NextBlocks]_vars

\* --------------------------------------------------------- the page status
\* enum PageStatus
PageStatus == {"DRAFT", "PUBLISHED", "ARCHIVED"}

Rank(status) ==
    CASE status = "DRAFT" -> 0 [] status = "PUBLISHED" -> 1 [] OTHER -> 2

StatusAfterForwardOnly(old, new) == IF Rank(new) >= Rank(old) THEN new ELSE old

\* The status column after an update that sets it: the schema puts no guard
\* on the value it replaces.
StatusAfter(old, new) == new

\* Update the status of a landing page.
UpdateStatus(p, status) ==
    /\ Exists(landingPages, p)
    /\ landingPages' = {IF r.id = p
                        THEN [r EXCEPT !.status = StatusAfter(r.status, status)]
                        ELSE r : r \in landingPages}
    /\ UNCHANGED <<users, customerProfiles, adminProfiles, brands, reviews,
                   files, blocks, qrCodes, scanLogs, scanners, hosted, sent,
                   editor, client>>
    /\ Done

\* A store holding one user and the user's two brands, and no landing page
\* yet.
InitPages ==
    /\ users = {[id |-> "u1", email |-> "a@b.com"]}
    /\ customerProfiles = {}
    /\ adminProfiles = {}
    /\ brands = {[id |-> b, userId |-> "u1"] : b \in BrandIds}
    /\ reviews = {}
    /\ files = {}
    /\ landingPages = {}
    /\ blocks = {}
    /\ qrCodes = {}
    /\ scanLogs = {}
    /\ scanners = [s \in ScannerIds |-> IdleScanner]
    /\ hosted = AsDeclared
    /\ sent = NoRequest
    /\ editor = NoReorder
    /\ ui = NoUi
    /\ view = NoView
    /\ products = {}
    /\ productPage = NoPage
    /\ result = Reply("ok", NULL, {}, 0)

NextPages ==
    \/ \E b \in BrandIds, s \in Slugs : CreateLandingPage(b, s)
    \/ \E p \in PageIds, status \in PageStatus : UpdateStatus(p, status)
    \/ \E p \in PageIds : DeleteLandingPage(p)

SpecPages == InitPages /\ [][NextPages]_vars

\* ------------------------------------------------------------------ claims
Row(table, id) == CHOOSE r \in table : r.id = id

\* The ids of the brands a user owns, and of the pages of a set of brands.
BrandIdsOf(u) == {b.id : b \in {x \in brands : x.userId = u}}
PageIdsOf(bs) == {p.id : p \in {x \in landingPages : x.brandId \in bs}}

\* C1: in every reachable state every row's required owner is a live row:
\* a profile's, brand's, review's and file's user, a review's, file's,
\* landing page's and QR code's brand, a block's and QR code's landing page,
\* a scan log's QR code.
C1_ReferentialIntegrity ==
    /\ \A r \in customerProfiles : r.userId \in Ids(users)
    /\ \A r \in adminProfiles : r.userId \in Ids(users)
    /\ \A r \in brands : r.userId \in Ids(users)
    /\ \A r \in reviews : r.userId \in Ids(users) /\ r.brandId \in Ids(brands)
    /\ \A r \in files : r.userId \in Ids(users) /\ r.brandId \in Ids(brands)
    /\ \A r \in landingPages : r.brandId \in Ids(brands)
    /\ \A r \in blocks : r.landingPageId \in Ids(landingPages)
    /\ \A r \in qrCodes : /\ r.landingPageId \in Ids(landingPages)
                          /\ r.brandId \in Ids(brands)
    /\ \A r \in scanLogs : r.qrCodeId \in Ids(qrCodes)

\* A user has just been deleted, and with it a brand, a landing page of the
\* brand, a QR code of the page and a scan log of the QR code.
C1_Witness ==
    /\ result.deleted = "users"
    /\ {"brands", "landing_pages", "qr_codes", "scan_logs"} \subseteq result.removed

\* C2: a step that deletes user u leaves no brand, file, review, customer
\* profile or admin profile whose userId is u, and keeps every other user and
\* every profile, brand, review, file and landing page that neither names u
\* nor belongs to a brand of u.
C2_DeleteUserCascades ==
    [][\A u \in UserIds : DeleteUser(u) =>
        LET gone == BrandIdsOf(u) IN
        /\ \A r \in brands' \cup files' \cup reviews' \cup customerProfiles'
                    \cup adminProfiles' : r.userId # u
        /\ users' = {x \in users : x.id # u}
        /\ customerProfiles' = {r \in customerProfiles : r.userId # u}
        /\ adminProfiles' = {r \in adminProfiles : r.userId # u}
        /\ brands' = {r \in brands : r.userId # u}
        /\ {r \in reviews : r.userId # u /\ r.brandId \notin gone} \subseteq reviews'
        /\ {r \in files : r.userId # u /\ r.brandId \notin gone} \subseteq files'
        /\ {r \in landingPages : r.brandId \notin gone} \subseteq landingPages'
    ]_vars

\* A user has just been deleted together with a brand and a file, and another
\* user's brand is still there.
C2_Witness ==
    /\ result.deleted = "users"
    /\ {"brands", "files"} \subseteq result.removed
    /\ brands # {}

\* C3: a step that deletes brand b makes a read by id of each file, review,
\* landing page and QR code whose brandId was b report not-found, leaves the
\* users table as it was, and keeps every other brand and every row of the
\* other brands.
C3_DeleteBrandCascades ==
    [][\A b \in BrandIds : DeleteBrand(b) =>
        /\ \A r \in files : r.brandId = b => Read(files, r.id)' = "NotFoundError"
        /\ \A r \in reviews : r.brandId = b => Read(reviews, r.id)' = "NotFoundError"
        /\ \A r \in landingPages :
               r.brandId = b => Read(landingPages, r.id)' = "NotFoundError"
        /\ \A r \in qrCodes : r.brandId = b => Read(qrCodes, r.id)' = "NotFoundError"
        /\ users' = users
        /\ brands' = {r \in brands : r.id # b}
        /\ {r \in files : r.brandId # b} = files'
        /\ {r \in reviews : r.brandId # b} = reviews'
        /\ {r \in landingPages : r.brandId # b} = landingPages'
        /\ {r \in qrCodes : r.brandId # b} = qrCodes'
    ]_vars

\* A brand has just been deleted together with a file and a landing page of
\* its own, and a landing page of another brand is still there.
C3_Witness ==
    /\ result.deleted = "brands"
    /\ {"files", "landing_pages"} \subseteq result.removed
    /\ landingPages # {}

\* C4: a step that deletes landing page p leaves no block and no QR code whose
\* landingPageId is p and no scan log of such a QR code, and leaves the brands
\* and the other landing pages as they were.
C4_DeleteLandingPageCascades ==
    [][\A p \in PageIds : DeleteLandingPage(p) =>
        LET gone == {q.id : q \in {x \in qrCodes : x.landingPageId = p}} IN
        /\ \A r \in blocks' \cup qrCodes' : r.landingPageId # p
        /\ \A r \in scanLogs' : r.qrCodeId \notin gone
        /\ brands' = brands
        /\ landingPages' = {r \in landingPages : r.id # p}
        /\ blocks' = {r \in blocks : r.landingPageId # p}
        /\ qrCodes' = {r \in qrCodes : r.landingPageId # p}
    ]_vars

\* A landing page has just been deleted together with a block and a QR code of
\* its own, and another landing page is still there.
C4_Witness ==
    /\ result.deleted = "landing_pages"
    /\ {"blocks", "qr_codes"} \subseteq result.removed
    /\ landingPages # {}

\* C5: a step that deletes QR code q leaves exactly the scan logs of the other
\* QR codes, each as it was.
C5_DeleteQRCodeCascades ==
    [][\A q \in QRCodeIds : DeleteQRCode(q) =>
        /\ \A r \in scanLogs' : r.qrCodeId # q
        /\ scanLogs' = {r \in scanLogs : r.qrCodeId # q}
    ]_vars

\* A QR code has just been deleted together with a scan log of its own, and
\* another QR code is still there.
C5_Witness ==
    /\ result.deleted = "qr_codes"
    /\ "scan_logs" \in result.removed
    /\ qrCodes # {}

\* C6: a step that deletes user u keeps every scan log that names u and whose
\* QR code belongs to no brand of u, through its brand or its landing page:
\* the row stays, with userId null and every other column as it was.
C6_DeleteUserNullsScanLogs ==
    [][\A u \in UserIds : DeleteUser(u) =>
        \A l \in scanLogs :
            (/\ l.userId = u
             /\ Row(qrCodes, l.qrCodeId).brandId \notin BrandIdsOf(u)
             /\ Row(qrCodes, l.qrCodeId).landingPageId \notin PageIdsOf(BrandIdsOf(u)))
            => /\ [l EXCEPT !.userId = NULL] \in scanLogs'
               /\ \A k \in scanLogs' : k.id = l.id => k = [l EXCEPT !.userId = NULL]
    ]_vars

\* A user has just been deleted, and a scan log that named the user is still
\* there, its user reference cleared.
C6_Witness ==
    /\ result.deleted = "users"
    /\ result.nulled >= 1
    /\ \E l \in scanLogs : l.userId = NULL

\* C7: no two landing pages, of one brand or of two, have the same slug, and
\* a step that creates a landing page with a slug in use reports
\* ConflictError and leaves every table as it was.
C7_SlugUnique ==
    /\ [](\A p1, p2 \in landingPages : p1.slug = p2.slug => p1 = p2)
    /\ [][\A b \in BrandIds, s \in Slugs :
             (CreateLandingPage(b, s) /\ \E p \in landingPages : p.slug = s)
             => result'.status = "ConflictError" /\ UNCHANGED store
       ]_vars

\* Two brands have a landing page each, and a create with one of their slugs
\* has just been refused.
C7_Witness ==
    /\ result.status = "ConflictError"
    /\ \E p1, p2 \in landingPages : p1.brandId # p2.brandId

\* C8: every QR code's scanCount is the number of scan logs that name it, in
\* every state: at its creation, after every recorded scan and after every
\* delete.
C8_ScanCountIsLogCount ==
    \A q \in qrCodes :
        q.scanCount = Cardinality({l \in scanLogs : l.qrCodeId = q.id})

\* A QR code has been scanned twice.
C8_Witness ==
    \E q \in qrCodes :
        /\ q.scanCount = 2
        /\ Cardinality({l \in scanLogs : l.qrCodeId = q.id}) = 2

\* C9: once every record-scan request has completed, each QR code's scanCount
\* and the number of scan logs that name it both equal the number of requests
\* made against it.
C9_NoLostScan ==
    (\A s \in ScannerIds : scanners[s].pc \in {"off", "done"}) =>
        \A q \in qrCodes :
            LET n == Cardinality({s \in ScannerIds :
                         scanners[s].pc = "done" /\ scanners[s].qrCodeId = q.id})
            IN  /\ q.scanCount = n
                /\ Cardinality({l \in scanLogs : l.qrCodeId = q.id}) = n

\* MaxScanners requests against one QR code have all completed, each having
\* looked the QR code up before any of them ran its transaction.
C9_Witness ==
    \E q \in qrCodes :
        \A s \in ScannerIds :
            /\ scanners[s].pc = "done"
            /\ scanners[s].qrCodeId = q.id
            /\ scanners[s].seen = 0

\* C10: no two users have the same email, and a step that creates a user with
\* an email in use reports DuplicateEmail and leaves the users as they were.
C10_EmailUnique ==
    /\ [](\A u1, u2 \in users : u1.email = u2.email => u1 = u2)
    /\ [][\A e \in Emails :
             (CreateUser(e) /\ \E u \in users : u.email = e)
             => result'.status = "DuplicateEmail" /\ users' = users
       ]_vars

\* Two users are registered and a third registration, with the email of one
\* of them, has just been refused.
C10_Witness ==
    /\ result.status = "DuplicateEmail"
    /\ Cardinality(users) = 2

\* C11: no user has two customer profiles or two admin profiles, and a step
\* that creates a profile of a kind the user already has reports
\* ProfileAlreadyExists and leaves the profiles of both kinds as they were.
C11_OneProfilePerUser ==
    /\ [](/\ \A p1, p2 \in customerProfiles : p1.userId = p2.userId => p1 = p2
          /\ \A p1, p2 \in adminProfiles : p1.userId = p2.userId => p1 = p2)
    /\ [][\A u \in UserIds :
             /\ (CreateCustomerProfile(u) /\ \E p \in customerProfiles : p.userId = u)
                => /\ result'.status = "ProfileAlreadyExists"
                   /\ customerProfiles' = customerProfiles
             /\ (CreateAdminProfile(u) /\ \E p \in adminProfiles : p.userId = u)
                => /\ result'.status = "ProfileAlreadyExists"
                   /\ adminProfiles' = adminProfiles
       ]_vars

\* A user has a customer profile and an admin profile, and a second profile of
\* one of the kinds has just been refused.
C11_Witness ==
    /\ result.status = "ProfileAlreadyExists"
    /\ \E c \in customerProfiles, a \in adminProfiles : c.userId = a.userId

\* A text column that holds a value.
Filled(v) == v \notin {NULL, EMPTY}

\* C12: every brand row in the store, whichever form created it, has a
\* non-empty name, logo, description and email.
C12_BrandFieldsNonEmpty ==
    \A b \in brands :
        Filled(b.name) /\ Filled(b.logo) /\ Filled(b.description) /\ Filled(b.email)

\* C13: every brand row's owning user id is present and names a user.
C13_BrandOwnedByUser ==
    \A b \in brands : b.userId # NULL /\ b.userId \in Ids(users)

\* A step in which the profile form has made its request of the brands table:
\* the step of BrandProfileSection.handleSubmit that gets past its checks.
SaveRequested == sent'.op = "upsert" /\ result'.deleted = NULL

\* C14: no two brand rows name the same owning user, and a brand-profile save
\* that passes the form's checks, by a user who has a brand row, leaves that
\* row updated with the saved columns and adds no row.
C14_OneBrandPerUser ==
    /\ [](\A b1, b2 \in brands :
             (b1.userId # NULL /\ b1.userId = b2.userId) => b1 = b2)
    /\ [][(SaveRequested /\ \E b \in brands : b.userId = sent'.payload.user_id)
          => brands' = {IF b.userId = sent'.payload.user_id
                        THEN Merged(b, sent'.payload)
                        ELSE b : b \in brands}
       ]_vars

\* The value of a column in a brand row.
Column(row, c) ==
    CASE c = "user_id" -> row.userId
      [] c = "name" -> row.name
      [] c = "logo" -> row.logo
      [] c = "tagline" -> row.tagline
      [] c = "description" -> row.description
      [] OTHER -> row.email

BrandColumns == {"user_id", "name", "logo", "tagline", "description", "email"}

\* C15: a brand-profile save keeps every brand row, and in every brand row
\* every column that the request's payload does not name holds the value it
\* held before; the rows of other users keep every column.
C15_PartialUpdate ==
    [][SaveRequested =>
          \A b \in brands :
              \E a \in brands' :
                  /\ a.id = b.id
                  /\ \A c \in BrandColumns :
                         (c \notin DOMAIN sent'.payload
                          \/ b.userId # sent'.payload.user_id)
                         => Column(a, c) = Column(b, c)
      ]_vars

\* A save that left the tagline field empty has just updated a brand row that
\* had a tagline, and the row still has it.
C15_Witness ==
    /\ result.status = "ok" /\ result.deleted = NULL
    /\ sent.op = "upsert"
    /\ "tagline" \notin DOMAIN sent.payload
    /\ \E b \in brands : b.userId = sent.payload.user_id /\ b.tagline \in Taglines

\* C16: no two brand rows have the same id, and a brand-profile save leaves
\* every brand row in the table under the id it had, with the owner it had.
C16_BrandIdImmutable ==
    /\ [](\A b1, b2 \in brands : b1.id = b2.id => b1 = b2)
    /\ [][SaveRequested =>
             \A b \in brands :
                 \E a \in brands' : a.id = b.id /\ a.userId = b.userId
       ]_vars

\* A save that left the tagline field empty has just updated a brand row
\* that an earlier save gave a tagline, changing its email, and another
\* brand row is there too.
C16_Witness ==
    /\ result.status = "ok" /\ result.deleted = NULL
    /\ sent.op = "upsert"
    /\ "tagline" \notin DOMAIN sent.payload
    /\ Cardinality(brands) = 2
    /\ \E b \in brands, u \in users :
           /\ b.userId = sent.payload.user_id
           /\ b.tagline \in Taglines
           /\ u.id = b.userId
           /\ u.email # b.email

\* A sequence without one of its elements.
Without(seq, id) == SelectSeq(seq, LAMBDA x : x # id)

\* C17: the blocks of a page, read sorted by order, have strictly increasing
\* order values, and the sequence read is the one the last operation made:
\* an insert puts the new block before the blocks at or after its order and
\* keeps the others in sequence, a delete takes the block out and keeps the
\* others in sequence, and a committed reorder leaves the sequence it was
\* given.
C17_BlocksOrdered ==
    /\ [](\A p \in PageIds :
             \A i, j \in 1..Len(SortedRows(p)) :
                 i < j => SortedRows(p)[i].order < SortedRows(p)[j].order)
    /\ [][/\ \A p \in PageIds, at \in 0..MaxOrder :
                InsertBlock(p, at) =>
                    LET new == FreshId(blocks, EditorBlockIds)
                        before == Cardinality({b \in BlocksOf(p) : b.order < at})
                    IN  /\ Without(SortedIds(p)', new) = SortedIds(p)
                        /\ SortedIds(p)'[before + 1] = new
          /\ \A b \in EditorBlockIds :
                (editor.pc = "idle" /\ DeleteBlock(b)) =>
                    \A p \in PageIds : SortedIds(p)' = Without(SortedIds(p), b)
          /\ ReorderCommit => SortedIds(editor.page)' = editor.target
       ]_vars

\* Blocks have been inserted, one has been deleted, and a reorder of a page
\* has just committed: the page reads in the new sequence.
C17_Witness ==
    /\ result.deleted = "blocks"
    /\ editor.pc = "committed"
    /\ Len(editor.target) >= 2
    /\ SortedIds(editor.page) = editor.target

\* The rows of a page in the sequence a reorder gives them.
RowsOf(page, target) ==
    [i \in 1..Len(target) |->
        [id |-> target[i], landingPageId |-> page, order |-> i - 1]]

\* C18: what a reader reads of a page while it is being reordered, or once
\* the reorder has committed, is the whole sequence as it was before the
\* reorder or the whole sequence the reorder makes, each block with the order
\* that sequence gives it.
C18_ReorderAllOrNothing ==
    editor.read # <<>> =>
        editor.read \in {editor.old, RowsOf(editor.page, editor.target)}

\* A reorder of three blocks has rewritten some of them and not all, and a
\* reader has read the page meanwhile.
C18_Witness ==
    /\ editor.pc = "writing"
    /\ Len(editor.target) = 3
    /\ Cardinality(editor.written) \in {1, 2}
    /\ editor.read = editor.old

\* C19: every QR code's brandId is the brandId of the landing page its
\* landingPageId names.
C19_QRCodeBrandIsPageBrand ==
    \A q \in qrCodes :
        \E p \in landingPages : p.id = q.landingPageId /\ p.brandId = q.brandId

\* Two brands have a landing page each, and one of the pages has a QR code.
C19_Witness ==
    /\ qrCodes # {}
    /\ \E p1, p2 \in landingPages : p1.brandId # p2.brandId

\* C20: every landing page's status is DRAFT, PUBLISHED or ARCHIVED; a page
\* is DRAFT when it is created; and for every landing page and every one of
\* the three values an update of its status to that value can be made, and
\* leaves the page with that status, whatever status it had.
C20_PageStatus ==
    /\ [](\A p \in landingPages : p.status \in PageStatus)
    /\ [](\A p \in landingPages, status \in PageStatus :
             ENABLED UpdateStatus(p.id, status))
    /\ [][/\ \A p \in landingPages' :
                p.id \notin Ids(landingPages) => p.status = "DRAFT"
          /\ \A p \in PageIds, status \in PageStatus :
                UpdateStatus(p, status) =>
                    /\ Row(landingPages', p).status = status
                    /\ result'.status = "ok"
       ]_vars

\* Of two landing pages, both created as drafts, one has been published and
\* the other archived.
C20_Witness ==
    \E p1, p2 \in landingPages :
        /\ p1.status = "PUBLISHED"
        /\ p2.status = "ARCHIVED"


\* C21: a brand-profile save made with an empty brand name, an empty contact
\* email or no signed-in user is a validation error: it makes no request of
\* the brands table, leaves the store as it was and leaves the browser's
\* location as it was; so every upsert the form does make carries the user's
\* id, the brand name and the contact email.
C21_InvalidSaveWritesNothing ==
    [][/\ result'.status \in {"ValidationError", "NotAuthenticated"}
             => /\ sent'.op = "none"
                /\ UNCHANGED store
                /\ ui'.location = ui.location
       /\ SaveRequested
             => {"user_id", "name", "email"} \subseteq DOMAIN sent'.payload]_vars

\* A save refused for a missing field, after an earlier save had stored the
\* profile and moved the browser to the brand's path.
C21_Witness ==
    /\ result.status = "ValidationError"
    /\ sent = NoRequest
    /\ ui.location = <<"brand", "acme">>
    /\ ui.toast = Toast("error", "Email is required")
    /\ \E b \in brands : b.name = "Acme" /\ Filled(b.email)

InsertRequested ==
    sent'.op = "insert" /\ result'.deleted = NULL /\ users' # users

\* C23: in RegisterForm.handleSubmit the insert into brands comes only after
\* a sign-up that succeeded. When the sign-up returns an error no request is
\* made of the brands table, no brand row and no user is added, the browser
\* stays where it was, an error toast is raised and isLoading is false when
\* the handler is done; and every insert the form makes is for a user signed
\* up in the same submit.
C23_InsertOnlyAfterSignUp ==
    [][/\ result'.status = "DuplicateEmail"
             => /\ sent'.op = "none"
                /\ UNCHANGED store
                /\ ui'.location = ui.location
                /\ ui'.toast.kind = "error"
                /\ ui'.isLoading = FALSE
       /\ InsertRequested
             => \E u \in users' \ users : u.email = sent'.payload.email]_vars

\* A sign-up refused for an email already registered, by a form that an
\* earlier submit had left on the brand dashboard with a brand row stored.
C23_Witness ==
    /\ result.status = "DuplicateEmail"
    /\ sent = NoRequest
    /\ ui.toast = Toast("error", "Registration failed: User already registered")
    /\ ui.location = <<"dashboard", "brand">>
    /\ ~ui.isLoading
    /\ Cardinality(users) = 1
    /\ Cardinality(brands) = 1

\* The path the registration form goes to for a userType.
RedirectFor(userType) ==
    CASE userType = "Brand" -> <<"dashboard", "brand">>
      [] userType = "Admin" -> <<"dashboard", "admin">>
      [] OTHER -> <<"dashboard", "user">>

\* C24: once the sign-up has succeeded, RegisterForm.handleSubmit raises the
\* success toast and navigates to the path of its userType whether the insert
\* into brands succeeded or failed; the insert is made for every userType and
\* adds one brand row when it succeeds; and isLoading is false after every
\* submit.
C24_RedirectWhateverTheInsert ==
    /\ [](~ui.isLoading)
    /\ [][InsertRequested =>
             /\ ui'.toast.kind = "success"
             /\ ui'.toast.text \in UserTypes
             /\ ui'.location = RedirectFor(ui'.toast.text)
             /\ ui'.alert = IF result'.status = "ok"
                            THEN "brand info saved"
                            ELSE "failed to save brand info"
             /\ Cardinality(brands') = Cardinality(brands)
                    + (IF result'.status = "ok" THEN 1 ELSE 0)]_vars

\* An Admin's registration whose insert into brands failed: the success
\* toast is up and the browser is on the admin dashboard.
C24_Witness ==
    /\ sent.op = "insert"
    /\ result.status = "StoreError"
    /\ ui.toast = Toast("success", "Admin")
    /\ ui.alert = "failed to save brand info"
    /\ ui.location = <<"dashboard", "admin">>
    /\ ~ui.isLoading
    /\ brands = {}
    /\ users # {}


\* C22: a scan log is immutable once created: in every step, a scan log that
\* is still in the store afterwards has the scannedAt, qrCodeId, ipAddress,
\* userAgent and location it had before; and a scan log that a step creates
\* holds what the scan brought.
C22_ScanLogImmutable ==
    [][/\ \A l \in scanLogs : \A k \in scanLogs' :
              k.id = l.id => /\ k.scannedAt = l.scannedAt
                             /\ k.qrCodeId = l.qrCodeId
                             /\ k.ipAddress = l.ipAddress
                             /\ k.userAgent = l.userAgent
                             /\ k.location = l.location
       /\ \A k \in scanLogs' :
              k.id \notin Ids(scanLogs)
                  => \E scan \in Scans :
                         /\ k.scannedAt = scan.at
                         /\ k.ipAddress = scan.ipAddress
                         /\ k.userAgent = scan.userAgent
                         /\ k.location = scan.location]_vars

\* The user who scanned was deleted: the scan log is still there under its
\* QR code, without the user and with everything else it was created with.
C22_Witness ==
    /\ result.deleted = "users"
    /\ result.nulled > 0
    /\ \E l \in scanLogs : /\ l.userId = NULL
                           /\ l.ipAddress = "10.0.0.1"
                           /\ l.userAgent = "Mozilla/5.0"
                           /\ l.location = "IN"
                           /\ l.scannedAt \in Times
                           /\ Exists(qrCodes, l.qrCodeId)


\* The brand rows the profile page's query matches.
OwnRows == {b \in brands : b.userId = view.user}

ImagesFor(h) ==
    LET images == view.profile.featuredProducts[view.uploads[h].productIndex].images
    IN  {images[i] : i \in 1..Len(images)}

\* C27: when two handleImageUpload calls were in flight at once and both
\* have stored their file, the profile's featured products hold the public
\* URL of each.
C27_NoUploadLost ==
    (/\ view.overlapped
     /\ \A h \in UploadIds : view.uploads[h].pc = "done" /\ view.uploads[h].outcome = "ok")
        => \A h \in UploadIds : publicUrl(h, view.user) \in ImagesFor(h)


\* C28: BrandProductDetail.handleDelete asks the products table for a delete
\* only when the user has confirmed, and only of the row whose id is the
\* route id; no other row goes. The browser leaves for the products list only
\* when that delete came back without an error; when the user declines or
\* the delete fails, the browser stays, and the product the page holds and
\* the table are as they were.
C28_DeleteOnlyOnConfirm ==
    [][\A confirmed \in BOOLEAN, error \in BOOLEAN :
          handleDelete(confirmed, error) =>
              /\ productPage'.request.op = "delete" <=> confirmed
              /\ productPage'.request.op = "delete"
                     => productPage'.request.id = productPage.id
              /\ products' \subseteq products
              /\ \A r \in products \ products' : r.id = productPage.id
              /\ ui'.location # ui.location
                     => confirmed /\ ~error /\ ui'.location = ProductsPath
              /\ ~confirmed \/ error
                     => /\ ui'.location = ui.location
                        /\ productPage'.product = productPage.product
                        /\ products' = products]_vars

\* A confirmed delete failed: the error is shown, the browser is still on
\* the product's page, and the product is still loaded and still stored.
C28_Witness ==
    /\ productPage.request = [op |-> "delete", id |-> "pr1"]
    /\ ui.alert = "Error deleting product"
    /\ ui.location = <<"dashboard", "brand", "products", "pr1">>
    /\ productPage.product.found
    /\ ~productPage.loading
    /\ \E r \in products : r.id = "pr1"

\* C29: product ingredients round-trip through save and load. handleSave
\* stores the JSON text of the form's ingredient list, and fetchProduct,
\* parsing the text stored for a list, gives the form that list; a column
\* that holds nothing, or a text that is not JSON, loads as the empty list,
\* and a value that is not a string is used as it is.
C29_IngredientsRoundTrip ==
    [][/\ \A error \in BOOLEAN :
              handleSave(error) /\ ~error =>
                  \E r \in products' :
                      /\ r.id = productPage.id
                      /\ r.ingredients.kind = "text"
                      /\ r.ingredients.text = stringify(productPage.form.ingredients)
       /\ fetchProduct =>
              LET stored == ProductOf(productPage.id).ingredients
              IN  /\ \A list \in IngredientLists :
                         stored = Text(stringify(JArr(list)))
                             => productPage'.form.ingredients = JArr(list)
                  /\ stored.kind = "absent"
                         => productPage'.form.ingredients = JArr(<<>>)
                  /\ stored.kind = "text" /\ ~parse(stored.text).ok
                         => productPage'.form.ingredients = JArr(<<>>)
                  /\ stored.kind = "json"
                         => productPage'.form.ingredients = stored.value]_vars

\* The page has saved a list of two ingredients, reloaded, and loaded the
\* same list from the text the save stored.
C29_Witness ==
    /\ productPage.request.op = "select"
    /\ productPage.product.found
    /\ productPage.product.ingredients.kind = "text"
    /\ productPage.form.ingredients =
           JArr(<<Ingredient("salt", "1g"), Ingredient("salt", EMPTY)>>)
    /\ productPage.product.ingredients.text =
           <<Tok("[", ""),
             Tok("{", ""), Tok("str", "name"), Tok(":", ""), Tok("str", "salt"), Tok(",", ""),
                       Tok("str", "quantity"), Tok(":", ""), Tok("str", "1g"), Tok("}", ""),
             Tok(",", ""),
             Tok("{", ""), Tok("str", "name"), Tok(":", ""), Tok("str", "salt"), Tok(",", ""),
                       Tok("str", "quantity"), Tok(":", ""), Tok("str", EMPTY), Tok("}", ""),
             Tok("]", "")>>

=============================================================================
